---- MODULE Spec2Model ----
(***************************************************************************)
(* Model of onnx2tf/utils/common_functions.py and onnx2tf/ops/ReduceMin.py *)
(*                                                                         *)
(* The functions of common_functions.py are pure; each is an operator      *)
(* computed the way the Python code computes it, and a call of it is one   *)
(* action that draws the arguments from bounded sets and records the       *)
(* outcome in `call`.  make_node of ReduceMin.py is the one operation with *)
(* a side effect: it writes the bookkeeping map tf_layers_dict.            *)
(*                                                                         *)
(* Python values whose type the code tests or relies on are tagged         *)
(* records [type, v]; an outcome is a record [status, value] where status  *)
(* is "ok" or the name of the exception raised.  Python lists are TLA+     *)
(* sequences, so Python's list[i] is seq[i + 1].                           *)
(***************************************************************************)
EXTENDS Integers, Sequences, FiniteSets, TLC

VARIABLES pc, call, tf_layers_dict, translated

vars == <<pc, call, tf_layers_dict, translated>>

(***************************************************************************)
(* Bounds of the model                                                     *)
(***************************************************************************)
MaxRank == 5
MaxIn == 3
MaxKernel == 2
MaxStride == 2
MaxDilation == 2
MaxPad == 1
MaxLen == 4
MaxVal == 2
MaxNodes == 2

(***************************************************************************)
(* Python values and outcomes                                              *)
(***************************************************************************)
PyInt(n) == [type |-> "int", v |-> n]
PyList(s) == [type |-> "list", v |-> s]
PyStr(s) == [type |-> "str", v |-> s]
PyNone == [type |-> "NoneType", v |-> 0]

Ok(v) == [status |-> "ok", value |-> v]
Raise(e) == [status |-> e, value |-> <<>>]

\* list(range(a, b))
Range(a, b) == [i \in 1..(IF b > a THEN b - a ELSE 0) |-> a + i - 1]

\* the elements of a sequence
Elems(s) == {s[i] : i \in 1..Len(s)}

\* floor(n / d) and ceil(n / d) of the true quotient, d > 0
FloorDiv(n, d) == n \div d
CeilDiv(n, d) == -((-n) \div d)

Max2(a, b) == IF a >= b THEN a ELSE b
Min2(a, b) == IF a <= b THEN a ELSE b

(***************************************************************************)
(* convert_axis                                                            *)
(***************************************************************************)
\* A table that leaves every axis where it is
convertion_table_identity(tensor_rank) == Range(0, tensor_rank)

\* A table that repeats axis 1 instead of starting the tail at 1
convertion_table_repeat(tensor_rank) ==
    <<0>> \o <<tensor_rank - 1>> \o <<1>> \o Range(1, tensor_rank - 2)

\* [0] + [tensor_rank - 1] + [i for i in range(1, tensor_rank - 1)]
convertion_table(tensor_rank) ==
    <<0>> \o <<tensor_rank - 1>> \o Range(1, tensor_rank - 1)

\* axis is a tagged Python value: `axis >= 0` raises TypeError for a list
convert_axis(axis, tensor_rank) ==
    IF axis.type # "int"
    THEN Raise("TypeError")
    ELSE LET converted_axis == IF axis.v >= 0 THEN axis.v ELSE axis.v + tensor_rank
         IN  IF tensor_rank > 2
             THEN LET table == convertion_table(tensor_rank)
                      \* Python indexing: a negative index counts from the end
                      idx == IF converted_axis >= 0 THEN converted_axis
                             ELSE converted_axis + Len(table)
                  IN  IF idx < 0 \/ idx >= Len(table)
                      THEN Raise("IndexError")
                      ELSE Ok(table[idx + 1])
             ELSE Ok(converted_axis)

(***************************************************************************)
(* get_constant_or_variable                                                *)
(*                                                                         *)
(* An array is [shape, axes]: axes[i] is the axis of the original array    *)
(* that now sits at position i, so an untouched array of rank r has        *)
(* axes = <<0, .., r-1>>.                                                  *)
(***************************************************************************)
NdArray(shape) == [type |-> "ndarray", shape |-> shape, axes |-> Range(0, Len(shape))]

IsPermutationOf(table, r) ==
    /\ Len(table) = r
    /\ Elems(table) = {i - 1 : i \in 1..r}

\* numpy.ndarray.transpose(table): "axes don't match array" unless table
\* is a permutation of all the axes of the array
transpose(values, table) ==
    IF ~IsPermutationOf(table, Len(values.shape))
    THEN Raise("ValueError")
    ELSE Ok([type |-> "ndarray",
             shape |-> [i \in 1..Len(table) |-> values.shape[table[i] + 1]],
             axes |-> [i \in 1..Len(table) |-> values.axes[table[i] + 1]]])

\* [0] + [i for i in range(2, tensor_rank - 2)] + [1]
resolver_convertion_table(tensor_rank) ==
    <<0>> \o Range(2, tensor_rank - 2) \o <<1>>

\* hasattr(const_or_var, 'values') holds for a gs.Constant only
get_constant_or_variable(const_or_var) ==
    IF const_or_var.type = "Constant"
    THEN LET values == const_or_var.values
             tensor_rank == Len(values.shape)
         IN  IF tensor_rank > 2
             THEN transpose(values, resolver_convertion_table(tensor_rank))
             ELSE Ok(values)
    ELSE Ok(const_or_var)

(***************************************************************************)
(* alternative_argmax                                                      *)
(*                                                                         *)
(* The input is a rank-1 tensor [dtype, values]; dtype is "floating",      *)
(* "integer" or "other" (neither is_floating nor is_integer).  epsilon is  *)
(* None or a float [type, v] whose v is the reciprocal of the value the    *)
(* caller gave.  Floating inputs are integer valued and their arithmetic   *)
(* is exact: min(eps, z) * (1 / eps) is computed in units of eps.          *)
(***************************************************************************)
SeqMax(s) == CHOOSE m \in Elems(s) : \A x \in Elems(s) : x <= m

\* A ramp that counts up: 1 .. reduction_size
rev_index_ascending(reduction_size) == [i \in 1..reduction_size |-> i]

\* tf.range(reduction_size, 0, -1)
rev_index(reduction_size) == [i \in 1..reduction_size |-> reduction_size - i + 1]

\* eps = epsilon if epsilon else 1e-6, as the reciprocal 1 / eps
eps_reciprocal(epsilon) == IF epsilon.type = "NoneType" THEN 1000000 ELSE epsilon.v

alternative_argmax(input_tensor, axis, keepdims, epsilon, to_int64, to_float32) ==
    LET values == input_tensor.values
        rank == 1
        safe_axis == IF axis < 0 THEN rank + axis ELSE axis
        reduction_size == Len(values)
        axis_max == SeqMax(values)
        zero_if_max == [i \in 1..reduction_size |-> axis_max - values[i]]
        eps_inv == eps_reciprocal(epsilon)
    IN
    IF input_tensor.dtype \notin {"floating", "integer"}
    THEN \* print(error_msg); assert False, error_msg
         Raise("AssertionError")
    ELSE
    LET zero_if_max_else_one ==
            IF input_tensor.dtype = "floating"
            THEN \* minimum(eps, zero_if_max) * (1 / eps)
                 [i \in 1..reduction_size |-> Min2(1, zero_if_max[i] * eps_inv)]
            ELSE [i \in 1..reduction_size |-> Min2(1, zero_if_max[i])]
        one_if_max_else_zero ==
            [i \in 1..reduction_size |-> 1 - zero_if_max_else_one[i]]
        ramp == rev_index(reduction_size)
        rev_index_if_max_else_zero ==
            [i \in 1..reduction_size |-> one_if_max_else_zero[i] * ramp[i]]
        reverse_argmax == SeqMax(rev_index_if_max_else_zero)
    IN  Ok([dtype |-> IF to_int64 THEN "int64"
                      ELSE IF to_float32 THEN "float32" ELSE "output_type",
            \* _nnapi_scalar(reduction_size) has shape (1,), and so has the result
            values |-> <<reduction_size - reverse_argmax>>])

(***************************************************************************)
(* Pooling pads                                                            *)
(*                                                                         *)
(* A string is the sequence of its characters.  The quotients the code     *)
(* forms with `/` (in_size / stride, pad_along_axis / 2, out_size) are     *)
(* handed to ceil and floor as numerator and denominator.  A tensor is     *)
(* [type, shape].                                                          *)
(***************************************************************************)
UpperCase == <<"A", "B", "C", "D", "E", "F", "G", "H", "I", "J", "K", "L", "M",
               "N", "O", "P", "Q", "R", "S", "T", "U", "V", "W", "X", "Y", "Z">>
LowerCase == <<"a", "b", "c", "d", "e", "f", "g", "h", "i", "j", "k", "l", "m",
               "n", "o", "p", "q", "r", "s", "t", "u", "v", "w", "x", "y", "z">>

\* str.lower()
lower(str) ==
    [i \in 1..Len(str) |->
        IF \E k \in 1..26 : UpperCase[k] = str[i]
        THEN LowerCase[CHOOSE k \in 1..26 : UpperCase[k] = str[i]]
        ELSE str[i]]

\* str.startswith(prefix)
startswith(str, prefix) ==
    /\ Len(str) >= Len(prefix)
    /\ SubSeq(str, 1, Len(prefix)) = prefix

same == <<"s", "a", "m", "e">>
same_lower == <<"s", "a", "m", "e", "_", "l", "o", "w", "e", "r">>
same_upper == <<"s", "a", "m", "e", "_", "u", "p", "p", "e", "r">>
VALID == <<"V", "A", "L", "I", "D">>

\* list[a:b]
Slice(l, a, b) == SubSeq(l, a + 1, Min2(b, Len(l)))

\* elementwise `pads += more`
VecAdd(pads, more) == [i \in 1..Len(pads) |-> pads[i] + more[i]]

Zeros(n) == [i \in 1..n |-> 0]

\* pad_ops(max_op, ceil_op, floor_op, cast_int_op): numpy and tensorflow
\* give the same integers
pad_numpy_ops == "pad_numpy_ops"
pad_tf_ops == "pad_tf_ops"
max_op(padding_ops, a, b) == Max2(a, b)
ceil_op(padding_ops, num, den) == CeilDiv(num, den)
floor_op(padding_ops, num, den) == FloorDiv(num, den)
cast_int_op(padding_ops, x) == x

\* The first definition of calc_pads_same_pooling (lines 357-427).  The
\* definition at lines 472-494 rebinds the name, so no call reaches this one.
RECURSIVE calc_pads_same_pooling_loop(_, _, _, _, _, _, _, _, _)
calc_pads_same_pooling_loop(i, pads, in_spatial_shape, kernel_shape, strides, dilations, padding, padding_ops, pads_order) ==
    LET spatial_size == Len(kernel_shape) IN
    IF i >= spatial_size THEN pads ELSE
    LET in_size == in_spatial_shape[i + 1]
        filter_size == (kernel_shape[i + 1] - 1) * dilations[i + 1] + 1
        out_size == cast_int_op(padding_ops,
                                ceil_op(padding_ops, in_size, strides[i + 1]))
        pad_along_axis ==
            max_op(padding_ops,
                   (out_size - 1) * strides[i + 1] + filter_size - in_size, 0)
        pad_begin ==
            cast_int_op(padding_ops,
                        IF lower(padding) = same_lower
                        THEN ceil_op(padding_ops, pad_along_axis, 2)
                        ELSE floor_op(padding_ops, pad_along_axis, 2))
        pad_end == cast_int_op(padding_ops, pad_along_axis) - pad_begin
        at_begin == i * pads_order
        at_end == i * pads_order + (IF pads_order = 1 THEN spatial_size ELSE 1)
        pads1 == [pads EXCEPT ![at_begin + 1] = pad_begin]
        pads2 == [pads1 EXCEPT ![at_end + 1] = pad_end]
    IN  calc_pads_same_pooling_loop(i + 1, pads2, in_spatial_shape, kernel_shape,
                                    strides, dilations, padding, padding_ops,
                                    pads_order)

calc_pads_same_pooling_shadowed(in_spatial_shape, kernel_shape, strides, dilations, padding, padding_ops, pads_order) ==
    Ok(calc_pads_same_pooling_loop(0, Zeros(Len(kernel_shape) * 2),
                                   in_spatial_shape, kernel_shape, strides,
                                   dilations, padding, padding_ops, pads_order))

\* the keyword-only parameters of the definition the name
\* calc_pads_same_pooling is bound to once the module is loaded (line 472)
calc_pads_same_pooling_parameters ==
    {"kernel_shape", "strides", "dilations", "padding", "in_spatial_shape",
     "is_known_shape"}

\* The second definition (lines 472-494).  Its body calls the name
\* calc_pads_same_pooling, which is this definition, with the keywords of
\* the first: Python raises TypeError for the unexpected keywords.
calc_pads_same_pooling(kernel_shape, strides, dilations, padding, in_spatial_shape, is_known_shape) ==
    LET pad_ops == IF is_known_shape THEN pad_numpy_ops ELSE pad_tf_ops
        keywords == {"in_spatial_shape", "kernel_shape", "strides", "dilations",
                     "padding", "padding_ops", "pads_order"}
    IN  IF keywords # calc_pads_same_pooling_parameters
        THEN Raise("TypeError")
        ELSE Raise("RecursionError")

calc_pads_explicit_pooling(padding, spatial_size) ==
    IF padding.type # "list"
    THEN Raise("AssertionError")
    ELSE IF Len(padding.v) < 2 * spatial_size
    THEN Raise("IndexError")
    ELSE Ok([j \in 1..(2 * spatial_size) |->
               LET i == (j - 1) \div 2
               IN  IF j % 2 = 1 THEN padding.v[i + 1]
                   ELSE padding.v[i + spatial_size + 1]])

\* pads += [0, pad_size] per axis: the extra end pad is not scaled
calc_pads_ceil_mode_pooling_unscaled(in_spatial_shape, spatial_size, kernel_shape, dilations, strides, is_known_shape) ==
    [j \in 1..(2 * spatial_size) |->
        LET i == (j - 1) \div 2
            dim_size == in_spatial_shape[i + 1]
            filter_size == (kernel_shape[i + 1] - 1) * dilations[i + 1] + 1
            pad_size == CeilDiv(dim_size - filter_size, strides[i + 1])
                          - FloorDiv(dim_size - filter_size, strides[i + 1])
        IN  IF j % 2 = 1 THEN 0 ELSE pad_size]

\* pads += [0, pad_size * strides[i]] per axis, where
\* out_size = (dim_size - filter_size) / strides[i] and
\* pad_size = ceil(out_size) - floor(out_size), taken with numpy when
\* is_known_shape and with tensorflow otherwise: the same integers
calc_pads_ceil_mode_pooling(in_spatial_shape, spatial_size, kernel_shape, dilations, strides, is_known_shape) ==
    [j \in 1..(2 * spatial_size) |->
        LET i == (j - 1) \div 2
            dim_size == in_spatial_shape[i + 1]
            filter_size == (kernel_shape[i + 1] - 1) * dilations[i + 1] + 1
            pad_size == CeilDiv(dim_size - filter_size, strides[i + 1])
                          - FloorDiv(dim_size - filter_size, strides[i + 1])
        IN  IF j % 2 = 1 THEN 0 ELSE pad_size * strides[i + 1]]

calc_pads_pooling(kernel_shape, strides, dilations, padding, is_known_shape, spatial_size, in_spatial_shape, ceil_mode) ==
    LET zeros == Zeros(spatial_size * 2)
        is_list == padding.type = "list"
        is_same == ~is_list /\ startswith(lower(padding.v), same)
        \* lines 514-527
        first == IF is_list
                 THEN calc_pads_explicit_pooling(padding, spatial_size)
                 ELSE IF is_same
                 THEN calc_pads_same_pooling(kernel_shape, strides, dilations,
                                             padding.v, in_spatial_shape,
                                             is_known_shape)
                 ELSE Ok(zeros)
    IN
    IF first.status # "ok" THEN first ELSE
    LET pads == VecAdd(zeros, first.value) IN
    \* lines 531-543
    IF ceil_mode /\ (is_list \/ ~is_same)
    THEN LET new_spatial_shape ==
                 [i \in 1..spatial_size |->
                     in_spatial_shape[i] + pads[2 * i - 1] + pads[2 * i]]
         IN  Ok(VecAdd(pads,
                       calc_pads_ceil_mode_pooling(new_spatial_shape, spatial_size,
                                                   kernel_shape, dilations, strides,
                                                   is_known_shape)))
    ELSE Ok(pads)

\* tf.pad(input_tensor, tf_paddings, mode='CONSTANT', constant_values=..)
tf_pad(input_tensor, tf_paddings, constant_values) ==
    IF Len(tf_paddings) # Len(input_tensor.shape)
    THEN Raise("ValueError")
    ELSE Ok([type |-> "tf.Tensor",
             shape |-> [k \in 1..Len(tf_paddings) |->
                          input_tensor.shape[k] + tf_paddings[k][1] + tf_paddings[k][2]]])

\* The outcome's value is [tensor, pad_op, tf_paddings]: the tensor
\* returned, whether a pad operation was emitted and the pad specification
\* it was given.
pad_input(input_tensor, is_known_shape, kernel_shape, ceil_mode, spatial_size, strides, dilations, padding, padding_constant) ==
    LET unchanged == Ok([tensor |-> input_tensor, pad_op |-> FALSE,
                         tf_paddings |-> <<>>])
    IN
    IF ~ceil_mode /\ (\/ (padding.type = "list" /\ padding.v = Zeros(spatial_size * 2))
                      \/ (padding.type = "str" /\ padding.v = VALID))
    THEN unchanged ELSE
    LET input_shape == input_tensor.shape
        in_spatial_shape == Slice(input_shape, 1, Len(kernel_shape) + 1)
        r == calc_pads_pooling(kernel_shape, strides, dilations, padding,
                               is_known_shape, spatial_size, in_spatial_shape,
                               ceil_mode)
    IN
    IF r.status # "ok" THEN r ELSE
    LET pads == r.value IN
    IF is_known_shape /\ \A j \in 1..Len(pads) : pads[j] = 0
    THEN unchanged ELSE
    LET tf_paddings == <<<<0, 0>>, <<0, 0>>>>
                         \o [i \in 1..spatial_size |-> <<pads[2 * i - 1], pads[2 * i]>>]
        padded == tf_pad(input_tensor, tf_paddings, padding_constant)
    IN
    IF padded.status # "ok" THEN padded ELSE
    Ok([tensor |-> padded.value, pad_op |-> TRUE, tf_paddings |-> tf_paddings])

(***************************************************************************)
(* ReduceMin.make_node                                                     *)
(*                                                                         *)
(* A node is [name, op, attrs, inputs, outputs]; attrs is a function whose *)
(* domain holds the attributes the node carries.  A tf tensor is           *)
(* [type, shape, src, reductions]: reductions lists the axes of the        *)
(* reduce_min operations applied to the tensor named src, in order.        *)
(***************************************************************************)
\* dict.get(key, default)
attrs_get(attrs, key, default) ==
    IF key \in DOMAIN attrs THEN attrs[key] ELSE default

\* tf.math.reduce_min(input_tensor, axis, keepdims)
reduce_min(input_tensor, axis, keepdims) ==
    LET rank == Len(input_tensor.shape)
        a == IF axis >= 0 THEN axis ELSE axis + rank
    IN  IF a < 0 \/ a >= rank
        THEN Raise("ValueError")
        ELSE Ok([type |-> "tf.Tensor",
                 shape |-> IF keepdims
                           THEN [i \in 1..rank |->
                                   IF i = a + 1 THEN 1 ELSE input_tensor.shape[i]]
                           ELSE [i \in 1..(rank - 1) |->
                                   IF i < a + 1 THEN input_tensor.shape[i]
                                   ELSE input_tensor.shape[i + 1]],
                 src |-> input_tensor.src,
                 reductions |-> Append(input_tensor.reductions, axis)])

\* for idx in axes: reducemined_tensor = tf.math.reduce_min(...)
RECURSIVE reduce_loop(_, _, _, _)
reduce_loop(reducemined_tensor, axes, k, keepdims) ==
    IF k > Len(axes)
    THEN Ok(reducemined_tensor)
    ELSE LET r == reduce_min(reducemined_tensor, axes[k], keepdims)
         IN  IF r.status # "ok" THEN r
             ELSE reduce_loop(r.value, axes, k + 1, keepdims)

\* the tensor a numpy constant is used as by tf.math.reduce_min
AsTensor(x) ==
    IF x.type = "ndarray"
    THEN [type |-> "tf.Tensor", shape |-> x.shape, src |-> <<"const">>,
          reductions |-> <<>>]
    ELSE x

\* d[key] = entry
DictSet(d, key, entry) ==
    [k \in DOMAIN d \cup {key} |-> IF k = key THEN entry ELSE d[k]]

\* The outcome of make_node and the bookkeeping map it leaves behind
make_node(graph_node, layers) ==
    LET r0 == get_constant_or_variable(graph_node.inputs[1])
    IN
    IF r0.status # "ok" THEN [result |-> r0, dict |-> layers] ELSE
    LET graph_node_input == r0.value
        graph_node_output == graph_node.outputs[1]
        shape == graph_node_output.shape
        dtype == graph_node_output.dtype
        tensor_rank == Len(graph_node_input.shape)
        axes0 == attrs_get(graph_node.attrs, "axes", PyList(<<-1>>))
        \* line 38: convert_axis is handed the whole list
        r1 == convert_axis(axes0, tensor_rank)
    IN
    IF r1.status # "ok" THEN [result |-> r1, dict |-> layers] ELSE
    LET axes1 == PyInt(r1.value) IN
    \* line 42: the comprehension iterates over what line 38 returned
    IF axes1.type # "list"
    THEN [result |-> Raise("TypeError"), dict |-> layers] ELSE
    LET conv == [k \in 1..Len(axes1.v) |-> convert_axis(PyInt(axes1.v[k]), tensor_rank)]
    IN
    IF \E k \in 1..Len(conv) : conv[k].status # "ok"
    THEN [result |-> conv[CHOOSE k \in 1..Len(conv) :
                            /\ conv[k].status # "ok"
                            /\ \A j \in 1..(k - 1) : conv[j].status = "ok"],
          dict |-> layers] ELSE
    LET axes == [k \in 1..Len(conv) |-> conv[k].value]
        keepdims == attrs_get(graph_node.attrs, "keepdims", 1) # 0
        dict1 == DictSet(layers, graph_node_output.name,
                         [optype |-> graph_node.op, shape |-> shape, dtype |-> dtype])
    IN
    IF graph_node_input.type = "Variable" /\ graph_node_input.name \notin DOMAIN dict1
    THEN [result |-> Raise("KeyError"), dict |-> dict1] ELSE
    LET start == IF graph_node_input.type = "Variable"
                 THEN dict1[graph_node_input.name].tf_node
                 ELSE AsTensor(graph_node_input)
        r2 == reduce_loop(start, axes, 1, keepdims)
    IN
    IF r2.status # "ok" THEN [result |-> r2, dict |-> dict1] ELSE
    [result |-> Ok(r2.value),
     dict |-> DictSet(dict1, graph_node_output.name,
                      [optype |-> graph_node.op, shape |-> shape, dtype |-> dtype,
                       tf_node |-> r2.value])]

(***************************************************************************)
(* State machine                                                           *)
(*                                                                         *)
(* pc = "idle": no call in progress; pc = "done": `call` holds the last    *)
(* call, its arguments and its outcome; pc = "aborted": an exception of    *)
(* make_node has ended the translation pass, and `call` holds that call.   *)
(* tf_layers_dict is the bookkeeping map of the pass and translated the    *)
(* number of nodes the pass has translated.                                *)
(***************************************************************************)
NoCall == [op |-> "none", args |-> <<>>, result |-> Ok(<<>>)]

GraphInputName(r) == <<"x", r>>
NodeOutputName(i) == <<"y", i>>

\* shapes of rank r with every dimension 1 or 2
Shapes(r) == [1..r -> 1..2]

\* the ONNX (channel-first) shape of the graph input of rank r: N=1, C=2, ..
OnnxShape(r) == [i \in 1..r |-> i]

\* the same shape in the converted (channel-last) layout
TfShape(r) ==
    IF r > 2
    THEN <<1>> \o [i \in 1..(r - 2) |-> i + 2] \o <<2>>
    ELSE OnnxShape(r)

Variable(name, shape) ==
    [type |-> "Variable", name |-> name, shape |-> shape, dtype |-> "float32"]

Constant(name, shape) ==
    [type |-> "Constant", name |-> name, shape |-> shape, dtype |-> "float32",
     values |-> NdArray(shape)]

GraphInputs == {Variable(GraphInputName(r), OnnxShape(r)) : r \in 1..MaxRank}

Constants ==
    {Constant(<<"c", s>>, s) : s \in UNION {Shapes(r) : r \in 0..MaxRank}}

\* the operands a ReduceMin node of the pass reads: a graph input, an
\* earlier node's output, or a constant
NodeInputs(layers) ==
    {Variable(n, layers[n].shape) : n \in DOMAIN layers}
      \cup {Constant(<<"c", OnnxShape(r)>>, OnnxShape(r)) : r \in 1..MaxRank}

\* the axes attribute: absent, or a list of one or two valid axes
AxesLists(r) ==
    LET A == (-r)..(r - 1)
    IN  {<<a>> : a \in A} \cup {<<a, b>> : a \in A, b \in A}

NodeAttrs(r) ==
    {[k \in {} |-> 0]}
      \cup {[k \in {"axes"} |-> PyList(l)] : l \in AxesLists(r)}
      \cup {[k \in {"keepdims"} |-> kd] : kd \in {0, 1}}
      \cup {[k \in {"axes", "keepdims"} |-> IF k = "axes" THEN PyList(l) ELSE kd] :
              l \in AxesLists(r), kd \in {0, 1}}

OperandRank(x) == Len(x.shape)

Init ==
    /\ pc = "idle"
    /\ call = NoCall
    /\ tf_layers_dict =
         [n \in {GraphInputName(r) : r \in 1..MaxRank} |->
            LET r == n[2]
            IN  [optype |-> "Input", shape |-> OnnxShape(r), dtype |-> "float32",
                 tf_node |-> [type |-> "tf.Tensor", shape |-> TfShape(r),
                              src |-> n, reductions |-> <<>>]]]
    /\ translated = 0

Call_convert_axis ==
    /\ pc = "idle"
    /\ \E tensor_rank \in 1..MaxRank :
         \E axis \in (-tensor_rank)..(tensor_rank - 1) :
            call' = [op |-> "convert_axis",
                     args |-> [axis |-> axis, tensor_rank |-> tensor_rank],
                     result |-> convert_axis(PyInt(axis), tensor_rank)]
    /\ pc' = "done"
    /\ UNCHANGED <<tf_layers_dict, translated>>

Call_get_constant_or_variable ==
    /\ pc = "idle"
    /\ \E const_or_var \in Constants \cup GraphInputs :
            call' = [op |-> "get_constant_or_variable",
                     args |-> [const_or_var |-> const_or_var],
                     result |-> get_constant_or_variable(const_or_var)]
    /\ pc' = "done"
    /\ UNCHANGED <<tf_layers_dict, translated>>

\* rank-1 inputs of 1 .. MaxLen elements
Vectors == UNION {[1..n -> 0..MaxVal] : n \in 1..MaxLen}

Call_alternative_argmax ==
    /\ pc = "idle"
    /\ \E values \in Vectors, dtype \in {"floating", "integer", "other"},
          axis \in {-1, 0}, keepdims \in BOOLEAN, epsilon \in {PyNone, [type |-> "float", v |-> 1000]},
          cast \in {"int64", "float32", "none"} :
            LET input_tensor == [type |-> "tf.Tensor", dtype |-> dtype,
                                 values |-> values]
            IN  call' = [op |-> "alternative_argmax",
                         args |-> [input_tensor |-> input_tensor, axis |-> axis,
                                   keepdims |-> keepdims, epsilon |-> epsilon,
                                   cast |-> cast],
                         result |-> alternative_argmax(input_tensor, axis, keepdims,
                                        epsilon, cast = "int64", cast = "float32")]
    /\ pc' = "done"
    /\ UNCHANGED <<tf_layers_dict, translated>>

\* one spatial axis of a pooling: input length, kernel, stride, dilation
\* and the explicit begin and end pad
AxisCases ==
    [in_size : 1..MaxIn, kernel : 1..MaxKernel, stride : 1..MaxStride,
     dilation : 1..MaxDilation, begin : 0..MaxPad, end : 0..MaxPad]

\* the second axis of a two-axis pooling
SecondAxisCases ==
    {[in_size |-> 2, kernel |-> 2, stride |-> 2, dilation |-> 1, begin |-> 0, end |-> 1],
     [in_size |-> 3, kernel |-> 1, stride |-> 1, dilation |-> 2, begin |-> 1, end |-> 0],
     [in_size |-> 4, kernel |-> 2, stride |-> 3, dilation |-> 2, begin |-> 0, end |-> 0]}

\* the axes of a pooling over one or two spatial dimensions
PoolingAxes ==
    {<<a>> : a \in AxisCases} \cup {<<a, b>> : a \in AxisCases, b \in SecondAxisCases}

Field(axes, f) == [i \in 1..Len(axes) |-> axes[i][f]]

\* the explicit padding list [b_0 .. b_n-1, e_0 .. e_n-1] of the axes
ExplicitPadding(axes) == PyList(Field(axes, "begin") \o Field(axes, "end"))

PaddingStrings ==
    {<<"S", "A", "M", "E", "_", "U", "P", "P", "E", "R">>,
     same_upper,
     <<"S", "A", "M", "E", "_", "L", "O", "W", "E", "R">>,
     <<"S", "a", "m", "e", "_", "L", "o", "w", "e", "r">>,
     VALID}

\* a padding string goes with axes whose explicit pads are unused
Paddings(axes) ==
    {ExplicitPadding(axes)}
      \cup IF \A i \in 1..Len(axes) : axes[i].begin = 0 /\ axes[i].end = 0
           THEN {PyStr(str) : str \in PaddingStrings}
           ELSE {}

Call_calc_pads_pooling ==
    /\ pc = "idle"
    /\ \E axes \in PoolingAxes, is_known_shape \in BOOLEAN, ceil_mode \in BOOLEAN :
         \E padding \in Paddings(axes) :
            LET args == [kernel_shape |-> Field(axes, "kernel"),
                         strides |-> Field(axes, "stride"),
                         dilations |-> Field(axes, "dilation"),
                         padding |-> padding,
                         is_known_shape |-> is_known_shape,
                         spatial_size |-> Len(axes),
                         in_spatial_shape |-> Field(axes, "in_size"),
                         ceil_mode |-> ceil_mode]
            IN  call' = [op |-> "calc_pads_pooling",
                         args |-> args,
                         result |-> calc_pads_pooling(args.kernel_shape, args.strides,
                                        args.dilations, args.padding,
                                        args.is_known_shape, args.spatial_size,
                                        args.in_spatial_shape, args.ceil_mode)]
    /\ pc' = "done"
    /\ UNCHANGED <<tf_layers_dict, translated>>

\* The input of pad_input is a tensor of shape [batch, spatial.., channels]
Call_pad_input ==
    /\ pc = "idle"
    /\ \E axes \in PoolingAxes, is_known_shape \in BOOLEAN, ceil_mode \in BOOLEAN,
          channels \in {1, 3} :
         \E padding \in Paddings(axes) :
            LET input_tensor == [type |-> "tf.Tensor",
                                 shape |-> <<1>> \o Field(axes, "in_size")
                                             \o <<channels>>]
                args == [input_tensor |-> input_tensor,
                         is_known_shape |-> is_known_shape,
                         kernel_shape |-> Field(axes, "kernel"),
                         ceil_mode |-> ceil_mode,
                         spatial_size |-> Len(axes),
                         strides |-> Field(axes, "stride"),
                         dilations |-> Field(axes, "dilation"),
                         padding |-> padding,
                         padding_constant |-> 0]
            IN  call' = [op |-> "pad_input",
                         args |-> args,
                         result |-> pad_input(args.input_tensor, args.is_known_shape,
                                        args.kernel_shape, args.ceil_mode,
                                        args.spatial_size, args.strides,
                                        args.dilations, args.padding,
                                        args.padding_constant)]
    /\ pc' = "done"
    /\ UNCHANGED <<tf_layers_dict, translated>>

\* The translation pass hands the next ReduceMin node to make_node; an
\* exception ends the pass.
Call_make_node ==
    /\ pc = "idle"
    /\ translated < MaxNodes
    /\ \E input \in NodeInputs(tf_layers_dict) :
         \E attrs \in NodeAttrs(OperandRank(input)) :
            LET out == Variable(NodeOutputName(translated + 1), input.shape)
                graph_node == [name |-> <<"ReduceMin", translated + 1>>,
                               op |-> "ReduceMin",
                               attrs |-> attrs,
                               inputs |-> <<input>>,
                               outputs |-> <<out>>]
                r == make_node(graph_node, tf_layers_dict)
            IN  /\ call' = [op |-> "make_node",
                            args |-> [graph_node |-> graph_node,
                                      before |-> tf_layers_dict],
                            result |-> r.result]
                /\ tf_layers_dict' = r.dict
                /\ translated' = IF r.result.status = "ok"
                                 THEN translated + 1 ELSE translated
                /\ pc' = IF r.result.status = "ok" THEN "done" ELSE "aborted"

Return ==
    /\ pc = "done"
    /\ pc' = "idle"
    /\ call' = NoCall
    /\ UNCHANGED <<tf_layers_dict, translated>>

Next ==
    \/ Call_convert_axis
    \/ Call_get_constant_or_variable
    \/ Call_alternative_argmax
    \/ Call_calc_pads_pooling
    \/ Call_pad_input
    \/ Call_make_node
    \/ Return

Spec == Init /\ [][Next]_vars

(***************************************************************************)
(* Claims about convert_axis                                               *)
(***************************************************************************)
Done(op) == pc \in {"done", "aborted"} /\ call.op = op

\* C4 as stated: for tensor_rank > 2 the last axis (given as tensor_rank-1
\* or as -1) is converted to 1 and the first axis (given as 0 or as
\* -tensor_rank) to 0.
C4_LastAxisToOne ==
    (Done("convert_axis") /\ call.args.tensor_rank > 2) =>
        LET axis == call.args.axis
            tensor_rank == call.args.tensor_rank
        IN  /\ call.result.status = "ok"
            /\ axis \in {tensor_rank - 1, -1} => call.result.value = 1
            /\ axis \in {0, -tensor_rank} => call.result.value = 0

\* C4 amended: for tensor_rank > 2 the last axis (given as tensor_rank-1 or
\* as -1) is converted to tensor_rank-2, which is 1 only for rank 3, and
\* the first axis (given as 0 or as -tensor_rank) to 0.
C4_LastAxisToRankMinusTwo ==
    (Done("convert_axis") /\ call.args.tensor_rank > 2) =>
        LET axis == call.args.axis
            tensor_rank == call.args.tensor_rank
        IN  /\ call.result.status = "ok"
            /\ axis \in {tensor_rank - 1, -1} => call.result.value = tensor_rank - 2
            /\ axis \in {0, -tensor_rank} => call.result.value = 0

C4_Witness ==
    /\ Done("convert_axis")
    /\ call.args.tensor_rank = 4
    /\ call.args.axis = -1
    /\ call.result = Ok(2)

\* C8: for a fixed tensor_rank >= 1, convert_axis on the axes
\* 0..tensor_rank-1 is a bijection onto 0..tensor_rank-1: the result is in
\* range and no other axis is converted to it; for tensor_rank <= 2 the
\* result is the normalized axis.
C8_ConvertAxisBijection ==
    Done("convert_axis") =>
        LET axis == call.args.axis
            tensor_rank == call.args.tensor_rank
            normalized == IF axis >= 0 THEN axis ELSE axis + tensor_rank
        IN  /\ call.result.status = "ok"
            /\ call.result.value \in 0..(tensor_rank - 1)
            /\ \A other \in 0..(tensor_rank - 1) :
                 other # normalized =>
                    convert_axis(PyInt(other), tensor_rank) # call.result
            /\ tensor_rank <= 2 => call.result.value = normalized

C8_Witness ==
    /\ Done("convert_axis")
    /\ call.args.tensor_rank = 4
    /\ call.args.axis = 3
    /\ call.result = Ok(2)

(***************************************************************************)
(* Claims about get_constant_or_variable                                   *)
(***************************************************************************)
\* C3: an operand with values of rank r > 2 is returned with its axes
\* permuted by a permutation of all r axes that moves axis 1 to the last
\* position and keeps the other axes in order; values of rank <= 2 are
\* returned unpermuted; an operand without values is returned unchanged.
C3_ResolverMovesAxisOneLast ==
    Done("get_constant_or_variable") =>
        LET operand == call.args.const_or_var
        IN  IF operand.type = "Constant"
            THEN LET r == Len(operand.values.shape)
                 IN  /\ call.result.status = "ok"
                     /\ IF r > 2
                        THEN call.result.value.axes = <<0>> \o Range(2, r) \o <<1>>
                        ELSE call.result.value = operand.values
            ELSE call.result = Ok(operand)

(***************************************************************************)
(* Claims about ReduceMin.make_node                                        *)
(***************************************************************************)
\* C2: make_node on a ReduceMin node whose input has rank r and whose axes
\* are valid completes without error and applies one reduce_min per entry
\* a of axes, in list order, each on axis convert_axis(a, r); for a rank-4
\* input, axes [-1] and keepdims true the stored result has rank 4 with
\* axis 1 of the converted layout collapsed to length 1.
C2_OneReduceMinPerAxis ==
    Done("make_node") =>
        LET graph_node == call.args.graph_node
            r == OperandRank(graph_node.inputs[1])
            axes == attrs_get(graph_node.attrs, "axes", PyList(<<-1>>)).v
            keepdims == attrs_get(graph_node.attrs, "keepdims", 1) # 0
        IN  /\ call.result.status = "ok"
            /\ call.result.value.reductions =
                 [k \in 1..Len(axes) |-> convert_axis(PyInt(axes[k]), r).value]
            /\ (r = 4 /\ axes = <<-1>> /\ keepdims) =>
                 /\ Len(call.result.value.shape) = 4
                 /\ call.result.value.shape[2] = 1

\* C9: an invocation of make_node creates exactly one entry of the
\* bookkeeping map, keyed by the output name of its node and holding
\* optype, shape, dtype and tf_node, and leaves every entry that existed
\* before unchanged.
C9_OneEntryPerInvocation ==
    Done("make_node") =>
        LET name == call.args.graph_node.outputs[1].name
            before == call.args.before
        IN  /\ name \notin DOMAIN before
            /\ DOMAIN tf_layers_dict = DOMAIN before \cup {name}
            /\ DOMAIN tf_layers_dict[name] = {"optype", "shape", "dtype", "tf_node"}
            /\ \A k \in DOMAIN before : tf_layers_dict[k] = before[k]

(***************************************************************************)
(* Claims about alternative_argmax                                         *)
(***************************************************************************)
\* C6: for an element type that is neither floating nor integer,
\* alternative_argmax fails with an assertion error exactly when the caller
\* gave no epsilon; for a floating or an integer type it never fails.
C6_AssertionIffNoEpsilon ==
    Done("alternative_argmax") =>
        LET dtype == call.args.input_tensor.dtype
        IN  IF dtype \in {"floating", "integer"}
            THEN call.result.status = "ok"
            ELSE (call.result.status = "AssertionError")
                    <=> (call.args.epsilon = PyNone)

\* the 0-based index of the first element of s that equals the maximum
FirstMaxIndex(s) ==
    (CHOOSE i \in 1..Len(s) :
        /\ s[i] = SeqMax(s)
        /\ \A j \in 1..(i - 1) : s[j] # SeqMax(s)) - 1

\* C7: for a non-empty integer vector reduced along its last axis,
\* alternative_argmax returns the 0-based index of the maximum, the lowest
\* one when the maximum occurs more than once; the result is
\* reduction_size minus the largest value of the ramp reduction_size..1
\* over the positions that hold the maximum.
C7_ArgmaxLowestIndex ==
    (Done("alternative_argmax") /\ call.args.input_tensor.dtype = "integer") =>
        LET values == call.args.input_tensor.values
            n == Len(values)
            masked == {n - i + 1 : i \in {j \in 1..n : values[j] = SeqMax(values)}}
        IN  /\ call.result.status = "ok"
            /\ call.result.value.values = <<FirstMaxIndex(values)>>
            /\ call.result.value.values[1] = n - (CHOOSE m \in masked : \A x \in masked : x <= m)

C7_Witness ==
    /\ Done("alternative_argmax")
    /\ call.args.input_tensor.dtype = "integer"
    /\ call.args.input_tensor.values = <<0, 2, 1, 2>>
    /\ call.result.status = "ok"
    /\ call.result.value.values = <<1>>

(***************************************************************************)
(* Claims about the pooling pads                                           *)
(***************************************************************************)
\* C1: for a same-mode padding string in any letter case and ceil_mode
\* false, calc_pads_pooling returns normally, and for each axis i
\* pads[2i] = begin and pads[2i+1] = end, where pad_along_axis =
\* max((ceil(in_size/stride)-1)*stride + (kernel-1)*dilation + 1 - in_size, 0),
\* begin is ceil(pad_along_axis/2) for same_lower and floor(pad_along_axis/2)
\* for same_upper, and end = pad_along_axis - begin.
C1_SameModePads ==
    (/\ Done("calc_pads_pooling")
     /\ call.args.padding.type = "str"
     /\ lower(call.args.padding.v) \in {same_upper, same_lower}
     /\ ~call.args.ceil_mode) =>
        /\ call.result.status = "ok"
        /\ \A i \in 1..call.args.spatial_size :
             LET in_size == call.args.in_spatial_shape[i]
                 stride == call.args.strides[i]
                 pad_along_axis ==
                     Max2((CeilDiv(in_size, stride) - 1) * stride
                            + (call.args.kernel_shape[i] - 1) * call.args.dilations[i]
                            + 1 - in_size, 0)
                 begin == IF lower(call.args.padding.v) = same_lower
                          THEN CeilDiv(pad_along_axis, 2)
                          ELSE FloorDiv(pad_along_axis, 2)
             IN  /\ call.result.value[2 * i - 1] = begin
                 /\ call.result.value[2 * i] = pad_along_axis - begin

\* C10: for an explicit padding list [b_0..b_n-1, e_0..e_n-1] and ceil_mode
\* true, calc_pads_pooling returns for each axis i begin = b_i and
\* end = e_i + x_i, where x_i is stride_i if in_size_i + b_i + e_i -
\* ((kernel_i-1)*dilation_i + 1) is not divisible by stride_i and 0
\* otherwise; with ceil_mode false it returns [b_0, e_0, b_1, e_1, ..]; for
\* a same-mode string the outcome with ceil_mode true is the outcome with
\* ceil_mode false.
C10_CeilModeAddsStrideAtEnd ==
    Done("calc_pads_pooling") =>
        LET n == call.args.spatial_size
            padding == call.args.padding
        IN  /\ padding.type = "list" =>
                 /\ call.result.status = "ok"
                 /\ Len(call.result.value) = 2 * n
                 /\ \A i \in 1..n :
                      LET b == padding.v[i]
                          e == padding.v[i + n]
                          stride == call.args.strides[i]
                          filter == (call.args.kernel_shape[i] - 1) * call.args.dilations[i] + 1
                          rest == call.args.in_spatial_shape[i] + b + e - filter
                          x == IF call.args.ceil_mode /\ rest % stride # 0
                               THEN stride ELSE 0
                      IN  /\ call.result.value[2 * i - 1] = b
                          /\ call.result.value[2 * i] = e + x
            /\ (padding.type = "str" /\ startswith(lower(padding.v), same)) =>
                 call.result =
                    calc_pads_pooling(call.args.kernel_shape, call.args.strides,
                                      call.args.dilations, padding,
                                      call.args.is_known_shape, n,
                                      call.args.in_spatial_shape, FALSE)

\* two axes, the first with begin pad 1 and an extra end pad of its stride 2
C10_Witness ==
    /\ Done("calc_pads_pooling")
    /\ call.args.ceil_mode
    /\ call.args.padding.type = "list"
    /\ call.args.spatial_size = 2
    /\ call.args.strides[1] = 2
    /\ call.args.dilations[1] = 2
    /\ call.args.padding.v[1] = 1
    /\ call.result.status = "ok"
    /\ call.result.value[1] = 1
    /\ call.result.value[2] = call.args.padding.v[3] + 2
    /\ call.result.value[4] = call.args.padding.v[4]

\* C5: when pad_input emits a pad operation, the pair calc_pads_pooling
\* computed from the length of input dimension k (k in 1..spatial_size) is
\* applied to dimension k, the batch dimension 0 and the channel dimension
\* (the last) get [0, 0], and the pad specification has one pair per input
\* dimension.
C5_PadsOnTheDimensionsRead ==
    (Done("pad_input") /\ call.result.status = "ok" /\ call.result.value.pad_op) =>
        LET n == call.args.spatial_size
            shape == call.args.input_tensor.shape
            tf_paddings == call.result.value.tf_paddings
            pads == calc_pads_pooling(call.args.kernel_shape, call.args.strides,
                                      call.args.dilations, call.args.padding,
                                      call.args.is_known_shape, n,
                                      [k \in 1..n |-> shape[k + 1]],
                                      call.args.ceil_mode).value
        IN  /\ Len(tf_paddings) = Len(shape)
            /\ tf_paddings[1] = <<0, 0>>
            /\ tf_paddings[Len(shape)] = <<0, 0>>
            /\ \A k \in 1..n : tf_paddings[k + 1] = <<pads[2 * k - 1], pads[2 * k]>>

====
